---- MODULE Spec2Model ----
(***************************************************************************)
(* Model of the velora real-time pipeline: the PCM capture worklet         *)
(* (pcm-processor.js), the playback scheduler and the transcript           *)
(* reconciler / correction attachment of App (unnamed/part_002), and the   *)
(* session service LiveService (services/liveService.ts).                  *)
(* Texts are TLA+ strings; characters are strings of length one.           *)
(***************************************************************************)
EXTENDS Integers, Sequences, FiniteSets, TLC

VARIABLES
    \* ---- App refs / state of the transcript reconciler ----
    transcriptHistory,      \* transcriptHistoryRef.current
    userTranscriptBuffer,   \* userTranscriptBufferRef.current
    aiTranscriptBuffer,     \* aiTranscriptBufferRef.current
    lastRole,               \* lastRoleRef.current ("user", "ai" or null)
    recentTurns,            \* recentTurnsRef.current
    turnIdCounter,          \* turnIdCounter.current
    transcriptTurnCount,    \* transcriptTurnCountRef.current
    corrections,            \* correctionsRef.current
    \* ---- practice mode ----
    isPracticeMode,         \* React state isPracticeMode
    isPracticeModeRef,      \* isPracticeModeRef.current (synced by an effect)
    currentPractice,        \* React state currentPractice
    \* ---- session ----
    status,                 \* React state status
    isRecording,            \* React state isRecording
    liveService,            \* liveServiceRef.current # null
    audioContext,           \* audioContextRef.current # null
    \* ---- playback scheduler ----
    currentTime,            \* audioContextRef.current.currentTime
    nextStartTime,          \* nextStartTimeRef.current
    scheduled,              \* buffers handed to source.start(), in call order
    \* ---- bookkeeping of the environment ----
    ev,                     \* the last operation that ran, with its inputs
    nCorrections,           \* number of correction events so far (Date.now())
    nSessions,              \* number of startSession calls so far
    nConcats,               \* number of fragments appended to a non-empty buffer
    resumed,                \* practice is over, no buffer enqueued since
    \* ---- PCMProcessor (pcm-processor.js) ----
    index,                  \* this.index
    buffer,                 \* this.buffer, a Float32Array(bufferSize)
    posted,                 \* the messages posted on this.port, in order
    nAppended,              \* number of samples written to this.buffer so far
    nAllocated,             \* Float32Arrays created inside process() so far
    nInput,                 \* number of samples passed to process() so far
    globalSampleRate,       \* globalThis.sampleRate of the worklet scope
    \* ---- a call of PCMProcessor.downsample on its own ----
    dsCall,                 \* the arguments of the call
    dsResult,               \* what the call returned
    \* ---- LiveService (services/liveService.ts) ----
    session,                \* this.session # null
    isConnected,            \* this.isConnected
    socket,                 \* the connection opened by ai.live.connect
    connectPc,              \* where the call of connect() stands
    disconnected,           \* disconnect() has returned
    received,               \* the upstream messages received so far, in order
    suspended,              \* handleMessage calls waiting at the await, in order
    calls,                  \* the calls of config callbacks and of the session
    nFrames,                \* frames handed to session.sendRealtimeInput
    \* ---- startSession of App and the LiveService it creates ----
    startPc,                \* where the call of startSession stands
    replaced                \* the connection of the LiveService replaced last

appVars == <<transcriptHistory, userTranscriptBuffer, aiTranscriptBuffer,
             lastRole, recentTurns, turnIdCounter, transcriptTurnCount,
             corrections, isPracticeMode, isPracticeModeRef, currentPractice,
             status, isRecording, liveService, audioContext, currentTime,
             nextStartTime, scheduled, ev, nCorrections, nSessions, nConcats, resumed>>

pcmVars == <<index, buffer, posted, nAppended, nAllocated, nInput,
             globalSampleRate>>

dsVars == <<dsCall, dsResult>>

svcVars == <<session, isConnected, socket, connectPc, disconnected, received,
             suspended, calls, nFrames>>

connVars == <<startPc, replaced>>

vars == <<appVars, pcmVars, dsVars, svcVars, connVars>>

null == "null"

\* the null value of a state that otherwise holds a Correction object
nullCorrection == [isNull |-> TRUE]

(***************************************************************************)
(* String helpers (String.prototype.trim, charAt, toLowerCase, ...)        *)
(***************************************************************************)
WhitespaceChars == {" ", "\t", "\n", "\r", "\f"}

ControlChars == {"\t", "\n", "\r", "\f"}

Digits == {"0", "1", "2", "3", "4", "5", "6", "7", "8", "9"}

LowerLetters == "abcdefghijklmnopqrstuvwxyz"

UpperLetters == "ABCDEFGHIJKLMNOPQRSTUVWXYZ"

\* s.charAt(i), 0-based; "" when out of range
CharAt(s, i) == IF i >= 0 /\ i < Len(s) THEN SubSeq(s, i + 1, i + 1) ELSE ""

ToLowerCase(c) ==
    IF \E i \in 1..26 : SubSeq(UpperLetters, i, i) = c
    THEN LET i == CHOOSE i \in 1..26 : SubSeq(UpperLetters, i, i) = c
         IN  SubSeq(LowerLetters, i, i)
    ELSE c

ToUpperCase(c) ==
    IF \E i \in 1..26 : SubSeq(LowerLetters, i, i) = c
    THEN LET i == CHOOSE i \in 1..26 : SubSeq(LowerLetters, i, i) = c
         IN  SubSeq(UpperLetters, i, i)
    ELSE c

RECURSIVE TrimStart(_)
TrimStart(s) ==
    IF Len(s) > 0 /\ CharAt(s, 0) \in WhitespaceChars
    THEN TrimStart(Tail(s))
    ELSE s

RECURSIVE TrimEnd(_)
TrimEnd(s) ==
    IF Len(s) > 0 /\ CharAt(s, Len(s) - 1) \in WhitespaceChars
    THEN TrimEnd(SubSeq(s, 1, Len(s) - 1))
    ELSE s

Trim(s) == TrimEnd(TrimStart(s))

\* number of consecutive digits of s starting at 1-based position i
RECURSIVE DigitRun(_, _)
DigitRun(s, i) ==
    IF i <= Len(s) /\ SubSeq(s, i, i) \in Digits
    THEN 1 + DigitRun(s, i + 1)
    ELSE 0

\* length of the match of /<ctrl\d+>/ at 1-based position i, 0 if none
CtrlTagAt(s, i) ==
    IF i + 4 <= Len(s) /\ SubSeq(s, i, i + 4) = "<ctrl"
    THEN LET d == DigitRun(s, i + 5)
         IN  IF d >= 1 /\ SubSeq(s, i + 5 + d, i + 5 + d) = ">"
             THEN 5 + d + 1
             ELSE 0
    ELSE 0

\* text.replace(CTRL_CHAR_REGEX, ''): one left-to-right pass
RECURSIVE ReplaceCtrlTags(_)
ReplaceCtrlTags(s) ==
    IF Len(s) = 0 THEN ""
    ELSE LET m == CtrlTagAt(s, 1)
         IN  IF m > 0
             THEN ReplaceCtrlTags(SubSeq(s, m + 1, Len(s)))
             ELSE SubSeq(s, 1, 1) \o ReplaceCtrlTags(Tail(s))

\* text.replace(CONTROL_CHAR_REGEX, '')
RECURSIVE ReplaceControlChars(_)
ReplaceControlChars(s) ==
    IF Len(s) = 0 THEN ""
    ELSE IF SubSeq(s, 1, 1) \in ControlChars
         THEN ReplaceControlChars(Tail(s))
         ELSE SubSeq(s, 1, 1) \o ReplaceControlChars(Tail(s))

sanitizedText(text) == ReplaceControlChars(ReplaceCtrlTags(text))

\* a slice that keeps the oldest n elements, slice(0, n)
SliceFirst(seq, n) ==
    IF Len(seq) <= n THEN seq ELSE SubSeq(seq, 1, n)

\* Array.prototype.slice(-n)
SliceLast(seq, n) ==
    IF Len(seq) <= n THEN seq ELSE SubSeq(seq, Len(seq) - n + 1, Len(seq))

\* a filter that lets the live turn through
completedTurnsAll(turns) == turns

\* recentTurnsRef.current.filter(t => t.id !== -1)
completedTurns(turns) == SelectSeq(turns, LAMBDA t : t.id # -1)

RecentWindow == 4

CorrectionCap == 10

Terminators == {".", "!", "?"}

\* length of the maximal run of sentence characters ([^.!?]) from position i
RECURSIVE BodyRun(_, _)
BodyRun(s, i) ==
    IF i <= Len(s) /\ SubSeq(s, i, i) \notin Terminators
    THEN 1 + BodyRun(s, i + 1)
    ELSE 0

\* length of the maximal run of terminators ([.!?]) from position i
RECURSIVE TerminatorRun(_, _)
TerminatorRun(s, i) ==
    IF i <= Len(s) /\ SubSeq(s, i, i) \in Terminators
    THEN 1 + TerminatorRun(s, i + 1)
    ELSE 0

\* text.match(/[^.!?]+[.!?]+/g): the matches from position i on, in order
RECURSIVE MatchSentences(_, _)
MatchSentences(s, i) ==
    IF i > Len(s) THEN <<>>
    ELSE LET n == BodyRun(s, i)
             t == TerminatorRun(s, i + n)
         IN  IF n = 0 THEN MatchSentences(s, i + 1)
             ELSE IF t = 0 THEN <<>>
             ELSE <<SubSeq(s, i, i + n + t - 1)>> \o MatchSentences(s, i + n + t)

\* Array.prototype.join(sep)
RECURSIVE Join(_, _)
Join(seq, sep) ==
    IF Len(seq) = 0 THEN ""
    ELSE IF Len(seq) = 1 THEN seq[1]
    ELSE seq[1] \o sep \o Join(Tail(seq), sep)

\* onCorrection, lines 628-631: the context attached to a correction
aiContextOf(aiBuffer) ==
    LET text == Trim(aiBuffer)
        matches == MatchSentences(text, 1)
        sentences == IF matches = <<>> THEN <<text>> ELSE matches
        recentContext == Trim(Join(SliceLast(sentences, 2), " "))
    IN  IF recentContext # "" THEN recentContext ELSE text

\* onCorrection, lines 651-657: scan back from JS index i for a user entry
RECURSIVE ScanBackForUser(_, _)
ScanBackForUser(hist, i) ==
    IF i < 0 THEN -1
    ELSE IF hist[i + 1].role = "user" THEN i
    ELSE ScanBackForUser(hist, i - 1)

lastUserTurnIndex(hist) == ScanBackForUser(hist, Len(hist) - 1)

(***************************************************************************)
(* onTranscript (part_002 lines 516-623), in its two steps                 *)
(***************************************************************************)
Reconciler ==
    [hist |-> transcriptHistory, recent |-> recentTurns,
     idc |-> turnIdCounter, ttc |-> transcriptTurnCount,
     ubuf |-> userTranscriptBuffer, abuf |-> aiTranscriptBuffer]

\* a role change that finalizes nothing
RoleSwitchNever(r, last, currentRole) == r

\* a role change that finalizes the user's turn only
RoleSwitchUserOnly(r, last, currentRole) ==
    IF last = "user" /\ currentRole = "ai" /\ Trim(r.ubuf) # ""
    THEN [hist |-> Append(r.hist, [role |-> "user", text |-> r.ubuf]),
          ttc |-> Len(r.hist),
          recent |-> SliceLast(Append(completedTurns(r.recent),
                        [role |-> "user", text |-> r.ubuf, id |-> r.idc]),
                        RecentWindow),
          idc |-> r.idc + 1,
          ubuf |-> "",
          abuf |-> r.abuf]
    ELSE r

\* a role change that finalizes the AI turn but keeps its buffer
RoleSwitchKeeping(r, last, currentRole) ==
    IF last = "ai" /\ currentRole = "user" /\ Trim(r.abuf) # ""
    THEN [hist |-> Append(r.hist, [role |-> "ai", text |-> r.abuf]),
          ttc |-> Len(r.hist),
          recent |-> SliceLast(Append(completedTurns(r.recent),
                        [role |-> "ai", text |-> r.abuf, id |-> r.idc]),
                        RecentWindow),
          idc |-> r.idc + 1,
          ubuf |-> r.ubuf,
          abuf |-> r.abuf]
    ELSE r

\* lines 525-570: a role change finalizes the previous role's turn
RoleSwitch(r, last, currentRole) ==
    IF last # null /\ last # currentRole
    THEN IF last = "user"
         THEN IF Trim(r.ubuf) # ""
              THEN [hist |-> Append(r.hist, [role |-> "user", text |-> r.ubuf]),
                    ttc |-> Len(r.hist),
                    recent |-> SliceLast(Append(completedTurns(r.recent),
                                  [role |-> "user", text |-> r.ubuf, id |-> r.idc]),
                                  RecentWindow),
                    idc |-> r.idc + 1,
                    ubuf |-> "",
                    abuf |-> r.abuf]
              ELSE r
         ELSE IF Trim(r.abuf) # ""
              THEN [hist |-> Append(r.hist, [role |-> "ai", text |-> r.abuf]),
                    ttc |-> Len(r.hist),
                    recent |-> SliceLast(Append(completedTurns(r.recent),
                                  [role |-> "ai", text |-> r.abuf, id |-> r.idc]),
                                  RecentWindow),
                    idc |-> r.idc + 1,
                    ubuf |-> r.ubuf,
                    abuf |-> ""]
              ELSE r
    ELSE r

\* line 602: the buffer starts with a lowercase letter
StartsLowercase(textToDisplay) ==
    LET bufferStart == CharAt(Trim(textToDisplay), 0)
    IN  /\ bufferStart # ""
        /\ bufferStart = ToLowerCase(bufferStart)
        /\ bufferStart # ToUpperCase(bufferStart)

\* a continuation test that ignores the role of the last finalized turn
IsContinuationAnyRole(turns, currentRole, textToDisplay) ==
    /\ Len(completedTurns(turns)) > 0
    /\ StartsLowercase(textToDisplay)

\* lines 598-608: the fragment continues the last finalized turn
IsContinuation(turns, currentRole, textToDisplay) ==
    LET completed == completedTurns(turns)
    IN  /\ Len(completed) > 0
        /\ completed[Len(completed)].role = currentRole
        /\ StartsLowercase(textToDisplay)

\* lines 576, 583: the fragment has visible text before and after sanitizing
Appends(text) == text # "" /\ Trim(text) # "" /\ sanitizedText(text) # ""

\* an accumulation that separates the fragments of a buffer by a space
AccumulateSpaced(r, text, isUser) ==
    LET currentRole == IF isUser THEN "user" ELSE "ai"
        st == sanitizedText(text)
        own == IF isUser THEN r.ubuf ELSE r.abuf
        buf == IF own = "" THEN st ELSE own \o " " \o st
    IN  IF Appends(text)
        THEN [r EXCEPT !.ubuf = IF isUser THEN buf ELSE r.ubuf,
                       !.abuf = IF isUser THEN r.abuf ELSE buf,
                       !.recent = SliceLast(Append(completedTurns(r.recent),
                           [role |-> currentRole, text |-> buf, id |-> -1]),
                           RecentWindow)]
        ELSE r

\* lines 575-622: accumulate the sanitized fragment, refresh the live turn
Accumulate(r, text, isUser) ==
    LET currentRole == IF isUser THEN "user" ELSE "ai"
        st == sanitizedText(text)
    IN  IF Appends(text)
        THEN LET ubuf == IF isUser THEN r.ubuf \o st ELSE r.ubuf
                 abuf == IF isUser THEN r.abuf ELSE r.abuf \o st
                 buf == IF isUser THEN ubuf ELSE abuf
                 completed == completedTurns(r.recent)
                 merge == IsContinuation(r.recent, currentRole, buf)
                 textToDisplay ==
                     IF merge THEN completed[Len(completed)].text \o " " \o buf
                     ELSE buf
                 kept == IF merge THEN SubSeq(completed, 1, Len(completed) - 1)
                         ELSE completed
             IN  [r EXCEPT !.ubuf = ubuf, !.abuf = abuf,
                           !.recent = SliceLast(Append(kept,
                               [role |-> currentRole, text |-> textToDisplay,
                                id |-> -1]), RecentWindow)]
        ELSE r

NoEvent == [op |-> "init", text |-> "", isUser |-> FALSE, isFinal |-> FALSE]

Event(op, text, isUser, isFinal) ==
    [op |-> op, text |-> text, isUser |-> isUser, isFinal |-> isFinal]

practiceVars == <<isPracticeMode, isPracticeModeRef, currentPractice>>

sessionVars == <<status, isRecording, liveService, audioContext>>

playbackVars == <<currentTime, nextStartTime, scheduled>>

reconcilerVars == <<transcriptHistory, userTranscriptBuffer, aiTranscriptBuffer,
                    lastRole, recentTurns, turnIdCounter, transcriptTurnCount>>

\* lines 520-523: AI transcripts are skipped while practising
Accepted(text, isUser) == Appends(text) /\ ~(isPracticeModeRef /\ ~isUser)

onTranscript(text, isUser, isFinal) ==
    LET currentRole == IF isUser THEN "user" ELSE "ai"
        mid == RoleSwitch(Reconciler, lastRole, currentRole)
        r == Accumulate(mid, text, isUser)
    IN  /\ liveService
        /\ ev' = Event("onTranscript", text, isUser, isFinal)
        /\ IF isPracticeModeRef /\ ~isUser
           THEN UNCHANGED reconcilerVars
           ELSE /\ transcriptHistory' = r.hist
                /\ userTranscriptBuffer' = r.ubuf
                /\ aiTranscriptBuffer' = r.abuf
                /\ lastRole' = currentRole
                /\ recentTurns' = r.recent
                /\ turnIdCounter' = r.idc
                /\ transcriptTurnCount' = r.ttc
        /\ nConcats' = IF Accepted(text, isUser) /\ (IF isUser THEN mid.ubuf ELSE mid.abuf) # ""
                       THEN nConcats + 1 ELSE nConcats
        /\ UNCHANGED <<corrections, practiceVars, sessionVars, playbackVars,
                       nCorrections, nSessions, resumed>>
        /\ UNCHANGED <<pcmVars, dsVars, svcVars, connVars>>

(***************************************************************************)
(* onCorrection (part_002 lines 624-685)                                   *)
(***************************************************************************)
\* liveService.ts lines 232-238: the correction handed to onCorrection
NewCorrection(timestamp) ==
    [original |-> "I go", corrected |-> "I went", explanation |-> "tense",
     timestamp |-> timestamp, aiContext |-> ""]

\* lines 635-638
alreadyFinalized(hist, abuf) ==
    /\ Len(hist) > 0
    /\ hist[Len(hist)].role = "ai"
    /\ hist[Len(hist)].text = abuf

\* lines 626-675: the AI turn is closed and the correction is attributed
AttachCorrection(r, correction) ==
    LET already == alreadyFinalized(r.hist, r.abuf)
        hist == IF already THEN r.hist
                ELSE Append(r.hist, [role |-> "ai", text |-> r.abuf])
    IN  [hist |-> hist,
         ttc |-> Len(hist) - 1,
         recent |-> IF already THEN r.recent
                    ELSE SliceLast(Append(completedTurns(r.recent),
                             [role |-> "ai", text |-> r.abuf, id |-> r.idc]),
                             RecentWindow),
         idc |-> IF already THEN r.idc ELSE r.idc + 1,
         ubuf |-> r.ubuf,
         abuf |-> "",
         correction |-> [original |-> correction.original,
                         corrected |-> correction.corrected,
                         explanation |-> correction.explanation,
                         timestamp |-> correction.timestamp,
                         aiContext |-> aiContextOf(r.abuf),
                         turnIndex |-> lastUserTurnIndex(hist)]]

onCorrection(correction) ==
    LET attach == Trim(aiTranscriptBuffer) # ""
        r == AttachCorrection(Reconciler, correction)
        c == IF attach THEN r.correction ELSE correction
    IN  /\ liveService
        /\ ev' = Event("onCorrection", "", FALSE, FALSE)
        /\ nCorrections' = nCorrections + 1
        /\ IF attach
           THEN /\ transcriptHistory' = r.hist
                /\ transcriptTurnCount' = r.ttc
                /\ recentTurns' = r.recent
                /\ turnIdCounter' = r.idc
                /\ aiTranscriptBuffer' = ""
                /\ lastRole' = null
                /\ UNCHANGED userTranscriptBuffer
           ELSE UNCHANGED reconcilerVars
        /\ corrections' = SliceLast(Append(corrections, c), CorrectionCap)
        /\ UNCHANGED <<practiceVars, sessionVars, playbackVars, nSessions, nConcats, resumed>>
        /\ UNCHANGED <<pcmVars, dsVars, svcVars, connVars>>

(***************************************************************************)
(* Practice mode (part_002 lines 154-156, 197-213)                         *)
(***************************************************************************)
\* the pill of the latest correction is clicked (lines 1086-1092)
enterPracticeMode ==
    /\ Len(corrections) > 0
    /\ isPracticeMode' = TRUE
    /\ currentPractice' = corrections[Len(corrections)]
    /\ resumed' = FALSE
    /\ ev' = Event("enterPracticeMode", "", FALSE, FALSE)
    /\ UNCHANGED <<reconcilerVars, corrections, isPracticeModeRef, sessionVars,
                   playbackVars, nCorrections, nSessions, nConcats>>
    /\ UNCHANGED <<pcmVars, dsVars, svcVars, connVars>>

\* a way out of practice mode that leaves the schedule pointer alone
exitPracticeModeKeeping ==
    /\ isPracticeMode
    /\ currentPractice # nullCorrection
    /\ isPracticeMode' = FALSE
    /\ currentPractice' = nullCorrection
    /\ resumed' = audioContext
    /\ ev' = Event("exitPracticeMode", "", FALSE, FALSE)
    /\ UNCHANGED <<reconcilerVars, corrections, isPracticeModeRef, sessionVars,
                   playbackVars, nCorrections, nSessions, nConcats>>
    /\ UNCHANGED <<pcmVars, dsVars, svcVars, connVars>>

\* the overlay is closed (lines 1075-1081)
exitPracticeMode ==
    /\ isPracticeMode
    /\ currentPractice # nullCorrection
    /\ isPracticeMode' = FALSE
    /\ currentPractice' = nullCorrection
    /\ nextStartTime' = IF audioContext THEN currentTime ELSE nextStartTime
    /\ resumed' = audioContext
    /\ ev' = Event("exitPracticeMode", "", FALSE, FALSE)
    /\ UNCHANGED <<reconcilerVars, corrections, isPracticeModeRef, sessionVars,
                   currentTime, scheduled, nCorrections, nSessions, nConcats>>
    /\ UNCHANGED <<pcmVars, dsVars, svcVars, connVars>>

\* useEffect(() => { isPracticeModeRef.current = isPracticeMode })
practiceModeEffect ==
    /\ isPracticeModeRef # isPracticeMode
    /\ isPracticeModeRef' = isPracticeMode
    /\ ev' = Event("practiceModeEffect", "", FALSE, FALSE)
    /\ UNCHANGED <<reconcilerVars, corrections, isPracticeMode, currentPractice,
                   sessionVars, playbackVars, nCorrections, nSessions, nConcats, resumed>>
    /\ UNCHANGED <<pcmVars, dsVars, svcVars, connVars>>

(***************************************************************************)
(* Session start and stop (part_002 lines 443-742, 772-852)                *)
(***************************************************************************)
startSession ==
    /\ ~isRecording
    /\ status \notin {"connected", "connecting"}
    /\ status' = "connected"
    /\ isRecording' = TRUE
    /\ liveService' = TRUE
    /\ audioContext' = TRUE
    /\ transcriptHistory' = <<>>
    /\ userTranscriptBuffer' = ""
    /\ aiTranscriptBuffer' = ""
    /\ lastRole' = null
    /\ recentTurns' = <<>>
    /\ turnIdCounter' = 0
    /\ currentTime' = 0
    /\ nextStartTime' = 0
    /\ scheduled' = <<>>
    /\ nSessions' = nSessions + 1
    /\ resumed' = FALSE
    /\ ev' = Event("startSession", "", FALSE, FALSE)
    /\ UNCHANGED <<transcriptTurnCount, corrections, practiceVars, nCorrections,
                   nConcats>>
    /\ UNCHANGED <<pcmVars, dsVars, svcVars, connVars>>

\* a stop that also empties the transcript history
stopRecordingClearing ==
    /\ isRecording
    /\ isRecording' = FALSE
    /\ status' = "disconnected"
    /\ transcriptHistory' = <<>>
    /\ userTranscriptBuffer' = ""
    /\ aiTranscriptBuffer' = ""
    /\ lastRole' = null
    /\ recentTurns' = <<>>
    /\ turnIdCounter' = 0
    /\ audioContext' = FALSE
    /\ resumed' = FALSE
    /\ ev' = Event("stopRecording", "", FALSE, FALSE)
    /\ UNCHANGED <<transcriptTurnCount, corrections, practiceVars, liveService,
                   playbackVars, nCorrections, nSessions, nConcats>>
    /\ UNCHANGED <<pcmVars, dsVars, svcVars, connVars>>

stopRecording ==
    /\ isRecording
    /\ isRecording' = FALSE
    /\ status' = "disconnected"
    /\ userTranscriptBuffer' = ""
    /\ aiTranscriptBuffer' = ""
    /\ lastRole' = null
    /\ recentTurns' = <<>>
    /\ turnIdCounter' = 0
    /\ audioContext' = FALSE
    /\ resumed' = FALSE
    /\ ev' = Event("stopRecording", "", FALSE, FALSE)
    /\ UNCHANGED <<transcriptHistory, transcriptTurnCount, corrections,
                   practiceVars, liveService, playbackVars, nCorrections,
                   nSessions, nConcats>>
    /\ UNCHANGED <<pcmVars, dsVars, svcVars, connVars>>

(***************************************************************************)
(* Playback scheduler (part_002 lines 488-515)                             *)
(***************************************************************************)
onAudioData(duration) ==
    /\ liveService
    /\ ev' = Event("onAudioData", "", FALSE, FALSE)
    /\ IF ~audioContext \/ isPracticeModeRef
       THEN UNCHANGED <<nextStartTime, scheduled, resumed>>
       ELSE LET now == currentTime
                start == IF nextStartTime >= now THEN nextStartTime ELSE now
            IN  /\ scheduled' = Append(scheduled,
                                   [start |-> start, duration |-> duration])
                /\ nextStartTime' = start + duration
                /\ resumed' = FALSE
    /\ UNCHANGED <<reconcilerVars, corrections, practiceVars, sessionVars,
                   currentTime, nCorrections, nSessions, nConcats>>
    /\ UNCHANGED <<pcmVars, dsVars, svcVars, connVars>>

\* the output clock of the open AudioContext advances
clockAdvance ==
    /\ audioContext
    /\ currentTime' = currentTime + 1
    /\ ev' = Event("clockAdvance", "", FALSE, FALSE)
    /\ UNCHANGED <<reconcilerVars, corrections, practiceVars, sessionVars,
                   nextStartTime, scheduled, nCorrections, nSessions, nConcats, resumed>>
    /\ UNCHANGED <<pcmVars, dsVars, svcVars, connVars>>


(***************************************************************************)
(* IEEE-754 binary64 arithmetic of the JavaScript numbers in downsample.   *)
(* A positive double is m * 2^e with 2^52 <= m < 2^53; the 53-bit m is     *)
(* kept as hi * 2^27 + lo so that every intermediate value fits.           *)
(***************************************************************************)
Two27 == 2^27

BigGeq(a, b) == a.hi > b.hi \/ (a.hi = b.hi /\ a.lo >= b.lo)

BigSub(a, b) ==
    IF a.lo >= b.lo
    THEN [hi |-> a.hi - b.hi, lo |-> a.lo - b.lo]
    ELSE [hi |-> a.hi - b.hi - 1, lo |-> a.lo + Two27 - b.lo]

BigDouble(a) ==
    [hi |-> 2 * a.hi + (2 * a.lo) \div Two27, lo |-> (2 * a.lo) % Two27]

BigInc(a) ==
    IF a.lo + 1 = Two27 THEN [hi |-> a.hi + 1, lo |-> 0]
    ELSE [hi |-> a.hi, lo |-> a.lo + 1]

RECURSIVE Log2Floor(_)
Log2Floor(n) == IF n <= 1 THEN 0 ELSE 1 + Log2Floor(n \div 2)

\* the double equal to the integer n, 1 <= n < 2^26
FloatOfInt(n) ==
    LET k == 25 - Log2Floor(n)
    IN  [m |-> [hi |-> n * 2^k, lo |-> 0], e |-> 0 - k - 27]

\* one step of the long division rem / den: the next quotient bit
DivStep(p, den) ==
    LET bit == BigGeq(p.rem, den)
        r1 == IF bit THEN BigSub(p.rem, den) ELSE p.rem
    IN  [q |-> IF bit THEN BigInc(BigDouble(p.q)) ELSE BigDouble(p.q),
         rem |-> BigDouble(r1),
         bits |-> p.bits - 1]

\* the long division, p.bits quotient bits
RECURSIVE DivBits(_, _)
DivBits(p, den) ==
    IF p.bits = 0 THEN p ELSE DivBits(DivStep(p, den), den)

\* x / y rounded to nearest, ties to even
FloatDiv(x, y) ==
    LET first == BigGeq(x.m, y.m)
        rem0 == IF first THEN x.m ELSE BigDouble(x.m)
        e == x.e - y.e - (IF first THEN 52 ELSE 53)
        d == DivBits([q |-> [hi |-> 0, lo |-> 0], rem |-> rem0, bits |-> 53],
                     y.m)
        above == BigGeq(d.rem, y.m) /\ d.rem # y.m
        tie == d.rem = y.m
        up == above \/ (tie /\ d.q.lo % 2 = 1)
        q == IF up THEN BigInc(d.q) ELSE d.q
    IN  IF q.hi = 2^26
        THEN [m |-> [hi |-> 2^25, lo |-> 0], e |-> e + 1]
        ELSE [m |-> q, e |-> e]

\* Math.ceil(x) for a double 0 < x < 2^26
FloatCeil(x) ==
    LET s == 0 - x.e
    IN  IF s >= 53 THEN 1
        ELSE LET t == s - 27
                 whole == x.m.hi \div 2^t
                 fraction == x.m.hi % 2^t # 0 \/ x.m.lo # 0
             IN  IF fraction THEN whole + 1 ELSE whole

(***************************************************************************)
(* PCMProcessor (pcm-processor.js)                                         *)
(***************************************************************************)
bufferSize == 2048

sampleRate == 16000

\* downsample, lines 46-64: the length of the returned array, and whether
\* the returned array is the input itself
downsample(inputLength, sourceRate, targetRate) ==
    IF sourceRate = targetRate
    THEN [length |-> inputLength, isInput |-> TRUE]
    ELSE LET ratio == FloatDiv(FloatOfInt(sourceRate), FloatOfInt(targetRate))
             newLength == IF inputLength = 0 THEN 0
                          ELSE FloatCeil(FloatDiv(FloatOfInt(inputLength), ratio))
         IN  [length |-> newLength, isInput |-> FALSE]

\* an iteration that posts the buffer one sample early
AppendSampleEarly(p) ==
    LET filled == [p.buffer EXCEPT ![p.index] = p.nAppended + 1]
        full == p.index + 1 >= bufferSize - 1
    IN  [buffer |-> filled,
         index |-> IF full THEN 0 ELSE p.index + 1,
         posted |-> IF full THEN Append(p.posted, filled) ELSE p.posted,
         nAppended |-> p.nAppended + 1,
         i |-> p.i + 1]

\* lines 24-30 and 33-39: iteration p.i of the filling loop; the sample
\* written is identified by its position in the stream of written samples
AppendSample(p) ==
    LET filled == [p.buffer EXCEPT ![p.index] = p.nAppended + 1]
        full == p.index + 1 >= bufferSize
    IN  [buffer |-> filled,
         index |-> IF full THEN 0 ELSE p.index + 1,
         posted |-> IF full THEN Append(p.posted, filled) ELSE p.posted,
         nAppended |-> p.nAppended + 1,
         i |-> p.i + 1]

\* the iterations p.i .. length - 1 of the filling loop, in order (run as
\* two consecutive halves, which bounds the depth of the evaluation)
RECURSIVE FillBuffer(_, _)
FillBuffer(p, length) ==
    IF p.i >= length THEN p
    ELSE IF p.i + 1 = length THEN AppendSample(p)
    ELSE FillBuffer(FillBuffer(p, (p.i + length) \div 2), length)

\* process, lines 12-43; hasInput is (input && input.length > 0)
process(hasInput, channelLength) ==
    LET resample == hasInput /\ globalSampleRate # sampleRate
        downsampled == downsample(channelLength, globalSampleRate, sampleRate)
        count == IF ~hasInput THEN 0
                 ELSE IF resample THEN downsampled.length
                 ELSE channelLength
        p == FillBuffer([buffer |-> buffer, index |-> index, posted |-> posted,
                         nAppended |-> nAppended, i |-> 0], count)
    IN  /\ buffer' = p.buffer
        /\ index' = p.index
        /\ posted' = p.posted
        /\ nAppended' = p.nAppended
        /\ nAllocated' = IF resample /\ ~downsampled.isInput
                         THEN nAllocated + 1 ELSE nAllocated
        /\ nInput' = IF hasInput THEN nInput + channelLength ELSE nInput
        /\ UNCHANGED globalSampleRate
        /\ UNCHANGED <<appVars, dsVars, svcVars, connVars>>

\* a call of downsample with the arguments drawn in the initial state
callDownsample ==
    /\ dsResult = <<>>
    /\ dsResult' = <<downsample(dsCall.length, dsCall.sourceRate,
                                dsCall.targetRate)>>
    /\ UNCHANGED dsCall
    /\ UNCHANGED <<appVars, pcmVars, svcVars, connVars>>

(***************************************************************************)
(* LiveService (services/liveService.ts): connect, the session callbacks,  *)
(* handleMessage, the three send methods and disconnect.  The callbacks of *)
(* config are the handlers of App modelled above; here their calls are     *)
(* recorded in the order in which they are made.  onClose and onError of   *)
(* App set the status (part_002 lines 686-691).                            *)
(***************************************************************************)
Call(fn, msg, isUser, isFinal) ==
    [fn |-> fn, msg |-> msg, isUser |-> isUser, isFinal |-> isFinal]

\* everything of App but the status and the event record
appRest == <<reconcilerVars, corrections, practiceVars, isRecording,
             liveService, audioContext, playbackVars, nCorrections, nSessions,
             nConcats, resumed>>

\* connect() up to its await of ai.live.connect, lines 27-154
connect ==
    /\ connectPc = "idle"
    /\ connectPc' = "awaiting"
    /\ socket' = "connecting"
    /\ ev' = Event("connect", "", FALSE, FALSE)
    /\ UNCHANGED <<session, isConnected, disconnected, received, suspended,
                   calls, nFrames>>
    /\ UNCHANGED <<appRest, status, pcmVars, dsVars, connVars>>

\* callbacks.onopen, lines 167-170
onopen ==
    /\ socket = "connecting"
    /\ socket' = "open"
    /\ isConnected' = TRUE
    /\ ev' = Event("onopen", "", FALSE, FALSE)
    /\ UNCHANGED <<session, connectPc, disconnected, received, suspended, calls,
                   nFrames>>
    /\ UNCHANGED <<appRest, status, pcmVars, dsVars, connVars>>

\* the await of ai.live.connect returns the session, line 154
connectResolve ==
    /\ connectPc = "awaiting"
    /\ socket # "connecting"
    /\ connectPc' = "returned"
    /\ session' = TRUE
    /\ ev' = Event("connectResolve", "", FALSE, FALSE)
    /\ UNCHANGED <<isConnected, socket, disconnected, received, suspended, calls,
                   nFrames>>
    /\ UNCHANGED <<appRest, status, pcmVars, dsVars, connVars>>

\* the await of ai.live.connect throws, lines 191-195
connectReject ==
    /\ connectPc = "awaiting"
    /\ socket = "connecting"
    /\ connectPc' = "returned"
    /\ socket' = "closed"
    /\ isConnected' = FALSE
    /\ calls' = Append(calls, Call("onError", 0, FALSE, FALSE))
    /\ status' = "error"
    /\ ev' = Event("connectReject", "", FALSE, FALSE)
    /\ UNCHANGED <<session, disconnected, received, suspended, nFrames>>
    /\ UNCHANGED <<appRest, pcmVars, dsVars, connVars>>

\* callbacks.onclose, lines 172-179: the connection was closed by the other
\* side (socket = "open"), by session.close() (socket = "closing") or after
\* an error
onclose ==
    /\ socket \in {"open", "closing", "errored"}
    /\ socket' = "closed"
    /\ isConnected' = FALSE
    /\ calls' = Append(calls, Call("onClose", 0, FALSE, FALSE))
    /\ status' = "disconnected"
    /\ ev' = Event("onclose", "", FALSE, FALSE)
    /\ UNCHANGED <<session, connectPc, disconnected, received, suspended,
                   nFrames>>
    /\ UNCHANGED <<appRest, pcmVars, dsVars, connVars>>

\* callbacks.onerror, lines 180-188; the connection that reported an error
\* is closed next
onerror ==
    /\ socket = "open"
    /\ socket' = "errored"
    /\ isConnected' = FALSE
    /\ calls' = Append(calls, Call("onError", 0, FALSE, FALSE))
    /\ status' = "error"
    /\ ev' = Event("onerror", "", FALSE, FALSE)
    /\ UNCHANGED <<session, connectPc, disconnected, received, suspended,
                   nFrames>>
    /\ UNCHANGED <<appRest, pcmVars, dsVars, connVars>>

\* disconnect(), lines 305-315
disconnect ==
    /\ connectPc # "idle"
    /\ ~disconnected
    /\ isConnected' = FALSE
    /\ socket' = IF session /\ socket = "open" THEN "closing" ELSE socket
    /\ session' = FALSE
    /\ disconnected' = TRUE
    /\ ev' = Event("disconnect", "", FALSE, FALSE)
    /\ UNCHANGED <<connectPc, received, suspended, calls, nFrames>>
    /\ UNCHANGED <<appRest, status, pcmVars, dsVars, connVars>>

\* sendAudioChunk, sendVideoFrame, sendTextMessage, lines 257-303
sendRealtimeInput(kind) ==
    /\ connectPc # "idle"
    /\ nFrames' = IF session /\ isConnected /\ socket = "open"
                  THEN nFrames + 1 ELSE nFrames
    /\ ev' = Event(kind, "", FALSE, FALSE)
    /\ UNCHANGED <<session, isConnected, socket, connectPc, disconnected,
                   received, suspended, calls>>
    /\ UNCHANGED <<appRest, status, pcmVars, dsVars, connVars>>

\* startSession of App up to its await of connect(), part_002 lines 443-696:
\* the LiveService in use is disconnected and replaced by a new one, whose
\* callbacks set the same status; a connection that session.close() or
\* an error has left open reports its close later
startSessionBegin ==
    /\ ~isRecording
    /\ startPc # "awaiting"
    /\ startPc' = "awaiting"
    /\ replaced' = IF liveService /\ socket \in {"open", "closing", "errored"}
                   THEN "closing" ELSE replaced
    /\ session' = FALSE
    /\ isConnected' = FALSE
    /\ socket' = "none"
    /\ connectPc' = "idle"
    /\ disconnected' = FALSE
    /\ received' = <<>>
    /\ suspended' = <<>>
    /\ calls' = <<>>
    /\ nFrames' = 0
    /\ status' = "connecting"
    /\ liveService' = TRUE
    /\ audioContext' = TRUE
    /\ transcriptHistory' = <<>>
    /\ userTranscriptBuffer' = ""
    /\ aiTranscriptBuffer' = ""
    /\ lastRole' = null
    /\ recentTurns' = <<>>
    /\ turnIdCounter' = 0
    /\ currentTime' = 0
    /\ nextStartTime' = 0
    /\ scheduled' = <<>>
    /\ nSessions' = nSessions + 1
    /\ resumed' = FALSE
    /\ ev' = Event("startSession", "", FALSE, FALSE)
    /\ UNCHANGED <<transcriptTurnCount, corrections, practiceVars, isRecording,
                   nCorrections, nConcats>>
    /\ UNCHANGED <<pcmVars, dsVars>>

\* startSession after its await of connect(), part_002 lines 697-742, and
\* startRecording after its await of startSession(), lines 775-826
startSessionContinue ==
    /\ startPc = "awaiting"
    /\ connectPc = "returned"
    /\ startPc' = "done"
    /\ status' = "connected"
    /\ isRecording' = TRUE
    /\ ev' = Event("startSessionContinue", "", FALSE, FALSE)
    /\ UNCHANGED replaced
    /\ UNCHANGED <<reconcilerVars, corrections, practiceVars, liveService,
                   audioContext, playbackVars, nCorrections, nSessions,
                   nConcats, resumed>>
    /\ UNCHANGED <<pcmVars, dsVars, svcVars>>

\* stopRecording with the disconnect() it calls, part_002 lines 828-852 and
\* liveService.ts lines 305-315
stopSession ==
    /\ isRecording
    /\ isRecording' = FALSE
    /\ status' = "disconnected"
    /\ userTranscriptBuffer' = ""
    /\ aiTranscriptBuffer' = ""
    /\ lastRole' = null
    /\ recentTurns' = <<>>
    /\ turnIdCounter' = 0
    /\ audioContext' = FALSE
    /\ resumed' = FALSE
    /\ isConnected' = FALSE
    /\ socket' = IF session /\ socket = "open" THEN "closing" ELSE socket
    /\ session' = FALSE
    /\ disconnected' = TRUE
    /\ ev' = Event("stopRecording", "", FALSE, FALSE)
    /\ UNCHANGED <<transcriptHistory, transcriptTurnCount, corrections,
                   practiceVars, liveService, playbackVars, nCorrections,
                   nSessions, nConcats>>
    /\ UNCHANGED <<connectPc, received, suspended, calls, nFrames>>
    /\ UNCHANGED <<pcmVars, dsVars, connVars>>

\* callbacks.onclose of the replaced LiveService, liveService.ts lines
\* 172-179, whose config.onClose is part_002 lines 686-688
replacedClose ==
    /\ replaced = "closing"
    /\ replaced' = "closed"
    /\ status' = "disconnected"
    /\ ev' = Event("replacedClose", "", FALSE, FALSE)
    /\ UNCHANGED startPc
    /\ UNCHANGED <<appRest, pcmVars, dsVars, svcVars>>

\* handleMessage after its audio part: transcripts, lines 206-221
Transcripts(m) ==
    (IF m.input
     THEN <<Call("onTranscript", m.id, TRUE, m.turnComplete)>> ELSE <<>>)
    \o (IF m.output
        THEN <<Call("onTranscript", m.id, FALSE, m.turnComplete)>>
        ELSE IF m.turnComplete
             THEN <<Call("onTranscript", m.id, FALSE, TRUE)>> ELSE <<>>)

\* handleMessage: the tool calls of the message, lines 223-253.  A toolCall
\* without functionCalls and a call without args throw a TypeError; a call of
\* another name or with an empty argument is passed over; a reportCorrection
\* call is delivered and then answered, and this.session.sendToolResponse
\* throws when this.session is null.
Rejected(msg) == <<Call("rejected", msg.id, FALSE, FALSE)>>

ToolCalls(m, hasSession) ==
    CASE m.toolCall = "none" -> <<>>
      [] m.toolCall \in {"noFunctionCalls", "noArgs"} -> Rejected(m)
      [] m.toolCall \in {"otherName", "missingField"} -> <<>>
      [] m.toolCall = "reportCorrection" ->
            <<Call("onCorrection", m.id, FALSE, FALSE)>>
            \o (IF hasSession
                THEN <<Call("sendToolResponse", m.id, FALSE, FALSE)>>
                ELSE Rejected(m))

\* callbacks.onmessage: handleMessage runs up to its await of decodeAudioData
\* when the message carries audio, and to its end otherwise, lines 198-255
handleMessage(m) ==
    LET msg == [id |-> Len(received) + 1, audio |-> m.audio,
                input |-> m.input, output |-> m.output,
                turnComplete |-> m.turnComplete, toolCall |-> m.toolCall]
    IN  /\ socket = "open"
        /\ received' = Append(received, msg)
        /\ IF m.audio # "none"
           THEN /\ suspended' = Append(suspended, msg)
                /\ UNCHANGED calls
           ELSE /\ calls' = calls \o Transcripts(msg) \o ToolCalls(msg, session)
                /\ UNCHANGED suspended
        /\ ev' = Event("handleMessage", "", FALSE, FALSE)
        /\ UNCHANGED <<session, isConnected, socket, connectPc, disconnected,
                       nFrames>>
        /\ UNCHANGED <<appRest, status, pcmVars, dsVars, connVars>>

\* handleMessage goes on after its await of decodeAudioData, lines 203-254;
\* decodeAudioData (audioUtils.ts 24-38) has thrown at new Int16Array when
\* the payload has an odd number of bytes, and the await throws in turn
resumeHandleMessage ==
    /\ suspended # <<>>
    /\ LET msg == Head(suspended)
       IN  calls' = IF msg.audio = "odd"
                    THEN calls \o Rejected(msg)
                    ELSE calls \o <<Call("onAudioData", msg.id, FALSE, FALSE)>>
                               \o Transcripts(msg) \o ToolCalls(msg, session)
    /\ suspended' = Tail(suspended)
    /\ ev' = Event("resumeHandleMessage", "", FALSE, FALSE)
    /\ UNCHANGED <<session, isConnected, socket, connectPc, disconnected,
                   received, nFrames>>
    /\ UNCHANGED <<appRest, status, pcmVars, dsVars, connVars>>

(* Specifications                                                          *)
(***************************************************************************)
MaxHistory == 2

MaxWindowHistory == 4

MaxPracticeHistory == 2

MaxPracticeSessions == 2

MaxConcats == 1

MaxCorrections == 1

MaxSessions == 1

MaxTime == 2

MaxScheduled == 2

MaxPackets == 2

MaxRate == 8

MaxInputLength == 21

\* correction events in the run that fills the correction list
MaxListCorrections == 11

\* history entries and concatenations in the runs with markup and blanks
MaxMarkupHistory == 1

MaxMarkupConcats == 1

\* upstream messages in a run of the service
MaxMessages == 2

\* frames sent in a run of the service
MaxFrames == 1

\* calls of startSession in the run that connects
MaxConnects == 2

\* history entries in the run that fills the correction list
MaxListHistory == 1

Fragments == {"", "a", "B"}

WindowFragments == {"", "a", "B"}

PracticeFragments == {"", "a"}

HelloFragments == {"Hello", "world", "Hi"}

ListFragments == {"a"}

\* a terminated sentence, unterminated text, two sentences in one fragment
ContextFragments == {"Hi.", " ok", "A! B?"}

\* a blank, a word, a tag in two halves, a tag inside a tag, a control
\* character inside a tag
MarkupFragments == {" ", "a", "<ctrl", "1>", "<ct<ctrl1>rl2>", "<ctrl\t3>"}

Durations == {1, 2}

\* upstream messages: an AI audio chunk with its transcript, the same with
\* a payload of odd length, a user transcript, the end of a turn, a
\* reported correction, and tool calls that are not well formed
ServerMessage(audio, input, output, turnComplete, toolCall) ==
    [audio |-> audio, input |-> input, output |-> output,
     turnComplete |-> turnComplete, toolCall |-> toolCall]

Messages ==
    { ServerMessage("even", FALSE, TRUE, FALSE, "none"),
      ServerMessage("odd", FALSE, TRUE, FALSE, "none"),
      ServerMessage("none", TRUE, FALSE, FALSE, "none"),
      ServerMessage("none", FALSE, FALSE, TRUE, "none"),
      ServerMessage("none", FALSE, FALSE, FALSE, "reportCorrection"),
      ServerMessage("none", FALSE, FALSE, FALSE, "missingField"),
      ServerMessage("none", FALSE, TRUE, FALSE, "noFunctionCalls") }

SendKinds == {"sendAudioChunk", "sendVideoFrame", "sendTextMessage"}

SampleRates == {16000, 44100, 48000}

ChunkLengths == {128, 256}

AppInit ==
    /\ transcriptHistory = <<>>
    /\ userTranscriptBuffer = ""
    /\ aiTranscriptBuffer = ""
    /\ lastRole = null
    /\ recentTurns = <<>>
    /\ turnIdCounter = 0
    /\ transcriptTurnCount = -1
    /\ corrections = <<>>
    /\ isPracticeMode = FALSE
    /\ isPracticeModeRef = FALSE
    /\ currentPractice = nullCorrection
    /\ status = "disconnected"
    /\ isRecording = FALSE
    /\ liveService = FALSE
    /\ audioContext = FALSE
    /\ currentTime = 0
    /\ nextStartTime = 0
    /\ scheduled = <<>>
    /\ ev = NoEvent
    /\ nCorrections = 0
    /\ nSessions = 0
    /\ nConcats = 0
    /\ resumed = FALSE

\* the PCMProcessor constructor, lines 2-10
PcmInit ==
    /\ index = 0
    /\ buffer = [i \in 0..(bufferSize - 1) |-> 0]
    /\ posted = <<>>
    /\ nAppended = 0
    /\ nAllocated = 0
    /\ nInput = 0

\* a LiveService as its constructor leaves it, lines 16-25
SvcInit ==
    /\ session = FALSE
    /\ isConnected = FALSE
    /\ socket = "none"
    /\ connectPc = "idle"
    /\ disconnected = FALSE
    /\ received = <<>>
    /\ suspended = <<>>
    /\ calls = <<>>
    /\ nFrames = 0

\* no startSession has run and no LiveService has been replaced
ConnInit ==
    /\ startPc = "idle"
    /\ replaced = "none"

DsIdle ==
    /\ dsCall = [length |-> 0, sourceRate |-> sampleRate, targetRate |-> sampleRate]
    /\ dsResult = <<>>

Init ==
    /\ AppInit
    /\ PcmInit
    /\ globalSampleRate = sampleRate
    /\ DsIdle
    /\ SvcInit
    /\ ConnInit

\* the length of the history after a role switch to currentRole
HistoryAfter(currentRole) ==
    Len(RoleSwitch(Reconciler, lastRole, currentRole).hist)

Transcript(fragments, finals, maxHistory, maxConcats) ==
    \E text \in fragments, isUser \in BOOLEAN, isFinal \in finals :
        /\ HistoryAfter(IF isUser THEN "user" ELSE "ai") <= maxHistory
        /\ Accepted(text, isUser)
             /\ (IF isUser THEN userTranscriptBuffer ELSE aiTranscriptBuffer) # ""
             => nConcats < maxConcats
        /\ onTranscript(text, isUser, isFinal)

Correction(maxHistory, maxCorrections) ==
    /\ nCorrections < maxCorrections
    /\ Len(AttachCorrection(Reconciler, NewCorrection(0)).hist) <= maxHistory
          \/ Trim(aiTranscriptBuffer) = ""
    /\ onCorrection(NewCorrection(nCorrections))

Start(maxSessions) ==
    /\ nSessions < maxSessions
    /\ startSession

AudioData ==
    \E duration \in Durations :
        /\ Len(scheduled) < MaxScheduled
        /\ onAudioData(duration)

ClockAdvance ==
    /\ currentTime < MaxTime
    /\ clockAdvance

Process ==
    \E hasInput \in BOOLEAN, channelLength \in ChunkLengths :
        /\ Len(posted) < MaxPackets
        /\ process(hasInput, channelLength)

\* the transcript reconciler and the correction attachment
ReconcilerNext ==
    \/ Start(MaxSessions)
    \/ stopRecording
    \/ Transcript(Fragments, BOOLEAN, MaxHistory, MaxConcats)
    \/ Correction(MaxHistory, MaxCorrections)

Next == ReconcilerNext

Spec == Init /\ [][Next]_vars

\* the recent window filled to its capacity
WindowNext ==
    \/ Start(MaxSessions)
    \/ Transcript(WindowFragments, {FALSE}, MaxWindowHistory, 0)
    \/ Correction(MaxWindowHistory, MaxCorrections)

SpecWindow == Init /\ [][WindowNext]_vars

\* the reconciler with practice mode, over several sessions
PracticeNext ==
    \/ Start(MaxPracticeSessions)
    \/ stopRecording
    \/ Transcript(PracticeFragments, {TRUE}, MaxPracticeHistory, 0)
    \/ Correction(MaxPracticeHistory, MaxCorrections)
    \/ enterPracticeMode
    \/ exitPracticeMode
    \/ practiceModeEffect

SpecPractice == Init /\ [][PracticeNext]_vars

\* the reconciler fed with whole words
HelloNext ==
    \/ Start(MaxSessions)
    \/ Transcript(HelloFragments, BOOLEAN, MaxHistory, MaxConcats)

SpecHello == Init /\ [][HelloNext]_vars

\* the playback scheduler with practice mode
PlaybackNext ==
    \/ Start(MaxSessions)
    \/ stopRecording
    \/ AudioData
    \/ ClockAdvance
    \/ Correction(MaxHistory, MaxCorrections)
    \/ enterPracticeMode
    \/ exitPracticeMode
    \/ practiceModeEffect

SpecPlayback == Init /\ [][PlaybackNext]_vars

\* the correction list filled beyond its cap
CorrectionsNext ==
    \/ Start(MaxSessions)
    \/ Transcript(ListFragments, {FALSE}, MaxListHistory, 0)
    \/ Correction(MaxListHistory, MaxListCorrections)

SpecCorrections == Init /\ [][CorrectionsNext]_vars

\* the reconciler fed with blanks and control markup
MarkupNext ==
    \/ Start(MaxSessions)
    \/ Transcript(MarkupFragments, {FALSE}, MaxMarkupHistory, MaxMarkupConcats)

SpecMarkup == Init /\ [][MarkupNext]_vars

\* corrections that arrive while the AI buffer holds sentences
ContextNext ==
    \/ Start(MaxSessions)
    \/ Transcript(ContextFragments, {FALSE}, MaxMarkupHistory, MaxMarkupConcats)
    \/ Correction(MaxMarkupHistory, MaxCorrections)

SpecContext == Init /\ [][ContextNext]_vars

Message ==
    \E m \in Messages :
        /\ Len(received) < MaxMessages
        /\ handleMessage(m)

Send ==
    \E kind \in SendKinds :
        /\ nFrames < MaxFrames
        /\ sendRealtimeInput(kind)

\* one LiveService from its construction on
ServiceNext ==
    \/ connect
    \/ onopen
    \/ connectResolve
    \/ connectReject
    \/ onclose
    \/ onerror
    \/ disconnect
    \/ Send
    \/ Message
    \/ resumeHandleMessage

SpecService == Init /\ [][ServiceNext]_vars

StartConnect ==
    /\ nSessions < MaxConnects
    /\ startSessionBegin

\* startSession of App with the LiveService it creates and the one it replaces
ConnectNext ==
    \/ StartConnect
    \/ connect
    \/ onopen
    \/ connectResolve
    \/ connectReject
    \/ onclose
    \/ onerror
    \/ startSessionContinue
    \/ stopSession
    \/ replacedClose

SpecConnect == Init /\ [][ConnectNext]_vars

\* the capture worklet
PcmSpecInit ==
    /\ AppInit
    /\ PcmInit
    /\ globalSampleRate \in SampleRates
    /\ DsIdle
    /\ SvcInit
    /\ ConnInit

SpecPcm == PcmSpecInit /\ [][Process]_vars

\* downsample as a function of its arguments
DsInit ==
    /\ AppInit
    /\ PcmInit
    /\ globalSampleRate = sampleRate
    /\ dsCall \in [length : 1..MaxInputLength, sourceRate : 1..MaxRate,
                   targetRate : 1..MaxRate]
    /\ dsCall.sourceRate >= dsCall.targetRate
    /\ dsResult = <<>>
    /\ SvcInit
    /\ ConnInit

SpecDownsample == DsInit /\ [][callDownsample]_vars

(***************************************************************************)
(* Properties                                                              *)
(***************************************************************************)

\* C1 (framing completeness): after N samples were appended to the capture
\* buffer, exactly floor(N / bufferSize) packets have been posted, packet k
\* holds the bufferSize samples (k-1)*bufferSize+1 .. k*bufferSize of the
\* stream (so never a partially filled buffer), and the write index is
\* N mod bufferSize.
FramingCompleteness ==
    /\ Len(posted) = nAppended \div bufferSize
    /\ index = nAppended % bufferSize
    /\ index >= 0 /\ index < bufferSize
    /\ \A k \in DOMAIN posted :
           posted[k] = [j \in 0..(bufferSize - 1) |-> (k - 1) * bufferSize + j + 1]

\* a packet was posted on the resampling branch and a new one is being filled
FramingWitness ==
    /\ globalSampleRate # sampleRate
    /\ Len(posted) >= 1
    /\ index > 0

\* C2 (playback non-overlap): every scheduled buffer starts no earlier than
\* the end of every buffer scheduled before it.
PlaybackNonOverlap ==
    \A a, b \in DOMAIN scheduled :
        a < b => scheduled[b].start >= scheduled[a].start + scheduled[a].duration

\* C3 as stated (role-switch commit): in a fresh session, after ("Hello",
\* user) and ("world", user, final), the event ("Hi", ai) commits exactly one
\* user entry whose text is "Hello world".
RoleSwitchCommitSpaced ==
    [][(/\ transcriptHistory = <<>>
        /\ lastRole = "user"
        /\ Len(userTranscriptBuffer) = Len("Hello") + Len("world")
        /\ SubSeq(userTranscriptBuffer, 1, 5) = "Hello"
        /\ ev = Event("onTranscript", "world", TRUE, TRUE)
        /\ ev' = Event("onTranscript", "Hi", FALSE, FALSE))
       => transcriptHistory' = <<[role |-> "user", text |-> "Hello world"]>>]_vars

\* C3 as amended: the three events run as follows. ("Hello", user) on the
\* fresh session fills the user buffer with "Hello"; ("world", user, final)
\* extends it to "Helloworld" (fragments are concatenated as they arrive)
\* and commits nothing; ("Hi", ai) commits exactly one user entry
\* "Helloworld", and the role-switch step has committed it before the ai live
\* entry is added to the recent window.
RoleSwitchCommit ==
    [][/\ (ev.op = "startSession" /\ ev' = Event("onTranscript", "Hello", TRUE, FALSE))
          => /\ userTranscriptBuffer' = "Hello"
             /\ transcriptHistory' = <<>>
             /\ recentTurns' = <<[role |-> "user", text |-> "Hello", id |-> -1]>>
       /\ (/\ transcriptHistory = <<>>
           /\ userTranscriptBuffer = "Hello"
           /\ lastRole = "user"
           /\ ev' = Event("onTranscript", "world", TRUE, TRUE))
          => /\ userTranscriptBuffer' = "Helloworld"
             /\ transcriptHistory' = <<>>
             /\ recentTurns' = <<[role |-> "user", text |-> "Helloworld", id |-> -1]>>
       /\ (/\ transcriptHistory = <<>>
           /\ userTranscriptBuffer = "Helloworld"
           /\ lastRole = "user"
           /\ ev' = Event("onTranscript", "Hi", FALSE, FALSE))
          => LET mid == RoleSwitch(Reconciler, lastRole, "ai")
                 committed == [role |-> "user", text |-> "Helloworld"]
             IN  /\ mid.hist = <<committed>>
                 /\ mid.recent = <<[role |-> "user", text |-> "Helloworld", id |-> 0]>>
                 /\ transcriptHistory' = <<committed>>
                 /\ userTranscriptBuffer' = ""
                 /\ recentTurns' = <<[role |-> "user", text |-> "Helloworld", id |-> 0],
                                     [role |-> "ai", text |-> "Hi", id |-> -1]>>]_vars

\* the three events have run: the user turn is committed, the ai turn is live
RoleSwitchCommitWitness ==
    /\ ev = Event("onTranscript", "Hi", FALSE, FALSE)
    /\ transcriptHistory = <<[role |-> "user", text |-> "Helloworld"]>>
    /\ recentTurns = <<[role |-> "user", text |-> "Helloworld", id |-> 0],
                       [role |-> "ai", text |-> "Hi", id |-> -1]>>

\* C4 as stated (idempotence on empty-final): an onTranscript event with
\* empty text and isFinal = TRUE for a role whose own buffer is empty leaves
\* the transcript history and the live turn of the recent window unchanged.
EmptyFinalIdempotent ==
    [][\A isUser \in BOOLEAN :
          (/\ ev' = Event("onTranscript", "", isUser, TRUE)
           /\ (IF isUser THEN userTranscriptBuffer ELSE aiTranscriptBuffer) = "")
          => /\ transcriptHistory' = transcriptHistory
             /\ SelectSeq(recentTurns', LAMBDA t : t.id = -1)
                  = SelectSeq(recentTurns, LAMBDA t : t.id = -1)]_vars

\* C4 as amended: such an event leaves the history, the buffers and the
\* recent window unchanged unless it is a role switch away from a role whose
\* buffer is non-blank (and it is not an AI event skipped in practice mode);
\* then it commits exactly that buffer as one history entry of the previous
\* role and no live turn remains in the recent window.
EmptyFinalOnlyRoleSwitch ==
    [][\A isUser \in BOOLEAN :
          (/\ ev' = Event("onTranscript", "", isUser, TRUE)
           /\ (IF isUser THEN userTranscriptBuffer ELSE aiTranscriptBuffer) = "")
          => LET currentRole == IF isUser THEN "user" ELSE "ai"
                 previous == IF lastRole = "user" THEN userTranscriptBuffer
                             ELSE aiTranscriptBuffer
                 finalizes == /\ ~(isPracticeModeRef /\ ~isUser)
                              /\ lastRole # null
                              /\ lastRole # currentRole
                              /\ Trim(previous) # ""
             IN  IF finalizes
                 THEN /\ transcriptHistory' = Append(transcriptHistory,
                                                  [role |-> lastRole, text |-> previous])
                      /\ SelectSeq(recentTurns', LAMBDA t : t.id = -1) = <<>>
                      /\ userTranscriptBuffer' = ""
                      /\ aiTranscriptBuffer' = ""
                 ELSE /\ transcriptHistory' = transcriptHistory
                      /\ recentTurns' = recentTurns
                      /\ userTranscriptBuffer' = userTranscriptBuffer
                      /\ aiTranscriptBuffer' = aiTranscriptBuffer]_vars

\* an empty final AI event arrived in practice mode while the user's turn
\* was being accumulated, and the user's turn is still live
EmptyFinalWitness ==
    /\ ev = Event("onTranscript", "", FALSE, TRUE)
    /\ isPracticeModeRef
    /\ aiTranscriptBuffer = ""
    /\ userTranscriptBuffer # ""
    /\ lastRole = "user"
    /\ Len(recentTurns) > 0
    /\ recentTurns[Len(recentTurns)].id = -1

\* C5 as stated (continuation merge): when a fragment is appended for role r
\* and, after the role-switch step, the most recent finalized entry of the
\* window has role r and r's buffer starts (after whitespace) with a
\* lowercase letter, the live text is prior.text + " " + buffer and the prior
\* entry leaves the window; otherwise the live text is the buffer alone and
\* no finalized entry leaves the window.
ContinuationMergeStrict ==
    [][(ev'.op = "onTranscript" /\ Accepted(ev'.text, ev'.isUser))
       => LET currentRole == IF ev'.isUser THEN "user" ELSE "ai"
              mid == RoleSwitch(Reconciler, lastRole, currentRole)
              completed == SelectSeq(mid.recent, LAMBDA t : t.id # -1)
              buf == IF ev'.isUser THEN userTranscriptBuffer'
                     ELSE aiTranscriptBuffer'
              first == CharAt(TrimStart(buf), 0)
              lowercase == \E k \in 1..26 : SubSeq(LowerLetters, k, k) = first
              prior == completed[Len(completed)]
              live == recentTurns'[Len(recentTurns')]
              finalized == SelectSeq(recentTurns', LAMBDA t : t.id # -1)
          IN  /\ live.id = -1
              /\ live.role = currentRole
              /\ IF Len(completed) > 0 /\ prior.role = currentRole /\ lowercase
                 THEN /\ live.text = prior.text \o " " \o buf
                      /\ finalized = SubSeq(completed, 1, Len(completed) - 1)
                 ELSE /\ live.text = buf
                      /\ finalized = completed]_vars

\* C5 as amended: as stated, except that without a merge the window keeps
\* its finalized entries only up to its capacity: when it already holds 4
\* finalized entries the oldest one leaves it; the prior entry always stays.
ContinuationMerge ==
    [][(ev'.op = "onTranscript" /\ Accepted(ev'.text, ev'.isUser))
       => LET currentRole == IF ev'.isUser THEN "user" ELSE "ai"
              mid == RoleSwitch(Reconciler, lastRole, currentRole)
              completed == SelectSeq(mid.recent, LAMBDA t : t.id # -1)
              buf == IF ev'.isUser THEN userTranscriptBuffer'
                     ELSE aiTranscriptBuffer'
              first == CharAt(TrimStart(buf), 0)
              lowercase == \E k \in 1..26 : SubSeq(LowerLetters, k, k) = first
              prior == completed[Len(completed)]
              live == recentTurns'[Len(recentTurns')]
              finalized == SelectSeq(recentTurns', LAMBDA t : t.id # -1)
          IN  /\ live.id = -1
              /\ live.role = currentRole
              /\ IF Len(completed) > 0 /\ prior.role = currentRole /\ lowercase
                 THEN /\ live.text = prior.text \o " " \o buf
                      /\ finalized = SubSeq(completed, 1, Len(completed) - 1)
                 ELSE /\ live.text = buf
                      /\ finalized = IF Len(completed) = 4 THEN Tail(completed)
                                     ELSE completed]_vars

\* a fragment "a" was merged into the finalized entry "B" of the same role
ContinuationMergeWitness ==
    /\ ev.op = "onTranscript"
    /\ ev.text = "a"
    /\ Len(recentTurns) > 0
    /\ recentTurns[Len(recentTurns)] =
           [role |-> IF ev.isUser THEN "user" ELSE "ai", text |-> "B a", id |-> -1]

\* C6 (correction turnIndex): the correction appended by a correction event
\* has turnIndex equal to the index in the transcript history of the most
\* recent user entry, or -1 if there is none.
CorrectionTurnIndex ==
    [][nCorrections' = nCorrections + 1
       => LET c == corrections'[Len(corrections')]
              users == {k \in DOMAIN transcriptHistory' :
                           transcriptHistory'[k].role = "user"}
          IN  /\ "turnIndex" \in DOMAIN c
              /\ c.turnIndex = IF users = {} THEN -1
                               ELSE (CHOOSE k \in users : \A m \in users : m <= k) - 1]_vars

\* C7 (no turn is lost): whenever the non-blank accumulated text of a role
\* leaves its buffer, the step appends it to the transcript history as an
\* entry of that role.
NoTurnLost ==
    [][\A role \in {"user", "ai"} :
          LET before == IF role = "user" THEN userTranscriptBuffer
                        ELSE aiTranscriptBuffer
              after == IF role = "user" THEN userTranscriptBuffer'
                       ELSE aiTranscriptBuffer'
              kept == /\ Len(after) >= Len(before)
                      /\ SubSeq(after, 1, Len(before)) = before
          IN  (Trim(before) # "" /\ ~kept)
              => /\ Len(transcriptHistory') = Len(transcriptHistory) + 1
                 /\ transcriptHistory'[Len(transcriptHistory')]
                      = [role |-> role, text |-> before]]_vars

\* C8 (resample length law): downsample(input, Sr, St) of a non-empty input
\* of length L returns ceil(L * St / Sr) samples when Sr > St > 0, and the
\* input itself when Sr = St.
ResampleLengthLaw ==
    dsResult # <<>>
    => LET L == dsCall.length
           Sr == dsCall.sourceRate
           St == dsCall.targetRate
       IN  IF Sr = St
           THEN dsResult[1].isInput /\ dsResult[1].length = L
           ELSE dsResult[1].length = (L * St + Sr - 1) \div Sr

\* C9 (recent-window well-formedness): the recent window holds at most 4
\* entries, at most one of them is live (id -1), and a live entry is last.
RecentWindowWellFormed ==
    /\ Len(recentTurns) <= 4
    /\ Cardinality({k \in DOMAIN recentTurns : recentTurns[k].id = -1}) <= 1
    /\ \A k \in DOMAIN recentTurns :
           recentTurns[k].id = -1 => k = Len(recentTurns)

\* the window is full, its last entry is live, the oldest turn has left it
RecentWindowWitness ==
    /\ Len(recentTurns) = 4
    /\ recentTurns[4].id = -1
    /\ recentTurns[1].id > 0
    /\ Len(transcriptHistory) = 4

\* C10 (history immutability): every step other than startSession keeps the
\* entries of the transcript history, in place, and at most appends to it.
HistoryAppendOnly ==
    [][\/ ev'.op = "startSession"
       \/ /\ Len(transcriptHistory') >= Len(transcriptHistory)
          /\ SubSeq(transcriptHistory', 1, Len(transcriptHistory))
               = transcriptHistory]_vars

\* the session was stopped in practice mode and its history is retained
HistoryAppendOnlyWitness ==
    /\ ev.op = "stopRecording"
    /\ isPracticeMode
    /\ Len(corrections) > 0
    /\ Len(transcriptHistory) >= 2

\* C11: after n correction events the correction list holds exactly the
\* min(n, 10) most recent corrections in arrival order (the correction of the
\* k-th event carries timestamp k - 1), so its length never exceeds 10.
BoundedCorrectionList ==
    LET n == nCorrections
        m == IF n < 10 THEN n ELSE 10
    IN  /\ Len(corrections) = m
        /\ Len(corrections) <= 10
        /\ \A i \in 1..m : corrections[i].timestamp = n - m + i - 1

\* an eleventh correction has arrived and the oldest one is gone
BoundedCorrectionListWitness ==
    /\ nCorrections = 11
    /\ Len(corrections) = 10
    /\ corrections[1].timestamp = 1
    /\ ev.op = "onCorrection"

\* C12: on an unexpected close (the connection was open and disconnect() had
\* not asked for the close) the service reports a reconnecting state, which
\* App shows as status "connecting", and does not invoke the terminal
\* onClose: at that moment no retry has been made yet, so the attempts are
\* not exhausted.
ReconnectBeforeTerminalClose ==
    [][(socket = "open" /\ ~disconnected /\ ev'.op = "onclose")
       => /\ status' = "connecting"
          /\ \A i \in 1..Len(calls') : calls'[i].fn # "onClose"]_vars

\* C13: the calls of config.onTranscript and config.onCorrection are made in
\* the order in which the messages carrying them arrived, also when an
\* earlier message is suspended at the await of the audio decoding.
ArrivalOrderProcessing ==
    \A i \in 1..Len(calls) : \A j \in 1..Len(calls) :
        (/\ i < j
         /\ calls[i].fn \in {"onTranscript", "onCorrection"}
         /\ calls[j].fn \in {"onTranscript", "onCorrection"})
        => calls[i].msg <= calls[j].msg

\* C14: once disconnect() has returned the service is not connected, holds
\* no open session, sends no further frame and starts no connection attempt,
\* whatever an in-flight connect() and the session callbacks do afterwards.
DisconnectIsFinal ==
    [][disconnected
       => /\ ~isConnected'
          /\ ~(session' /\ socket' = "open")
          /\ nFrames' = nFrames
          /\ socket' # "connecting"]_vars

\* C15: no execution of process() allocates a buffer, with or without
\* resampling: every sample is stored in the array made by the constructor.
NoAllocationInProcess == nAllocated = 0

\* C16 as stated: every onTranscript event for a role other than the last
\* active role finalizes the previous role's buffer (one history entry, the
\* live entry replaced by one finalized entry, the buffer cleared) when that
\* buffer is not blank, leaves the history alone when it is blank, and makes
\* the new role the last active role.
RoleSwitchStep(dropped) ==
    LET currentRole == IF ev'.isUser THEN "user" ELSE "ai"
        prevBuffer == IF lastRole = "user" THEN userTranscriptBuffer
                      ELSE aiTranscriptBuffer
        prevBufferAfter == IF lastRole = "user" THEN userTranscriptBuffer'
                           ELSE aiTranscriptBuffer'
        finalized == [role |-> lastRole, text |-> prevBuffer,
                      id |-> turnIdCounter]
        completedAfter == SelectSeq(recentTurns', LAMBDA t : t.id # -1)
    IN  (/\ ev'.op = "onTranscript"
         /\ lastRole # null
         /\ lastRole # currentRole
         /\ ~dropped)
        => /\ lastRole' = currentRole
           /\ IF Trim(prevBuffer) # ""
              THEN /\ transcriptHistory' =
                         Append(transcriptHistory,
                                [role |-> lastRole, text |-> prevBuffer])
                   /\ prevBufferAfter = ""
                   /\ completedAfter # <<>>
                   /\ completedAfter[Len(completedAfter)] = finalized
                   /\ \A i \in 1..Len(recentTurns') :
                          recentTurns'[i].id = -1
                          => recentTurns'[i].role = currentRole
              ELSE transcriptHistory' = transcriptHistory

RoleSwitchFinalizesAlways == [][RoleSwitchStep(FALSE)]_vars

\* C16, amended: the same, for every event that the handler does not drop;
\* an AI event that arrives while the practice flag is set is dropped before
\* the role change is looked at (lines 520-523).
RoleSwitchFinalizes == [][RoleSwitchStep(isPracticeModeRef /\ ~ev'.isUser)]_vars

\* a role change has just finalized a non-blank buffer
RoleSwitchFinalizesWitness ==
    /\ ev.op = "onTranscript"
    /\ ~ev.isUser
    /\ lastRole = "ai"
    /\ ~isPracticeModeRef
    /\ Len(transcriptHistory) > 0
    /\ transcriptHistory[Len(transcriptHistory)].role = "user"
    /\ userTranscriptBuffer = ""
    /\ \E i \in 1..Len(recentTurns) :
           recentTurns[i].role = "user" /\ recentTurns[i].id # -1

\* C17: a fragment of the role that is already active extends that role's
\* buffer by exactly the sanitized fragment, blanks included, so that the
\* buffer is the concatenation of the sanitized fragments in arrival order.
FragmentWhitespacePreserved ==
    [][LET isUser == ev'.isUser
           currentRole == IF isUser THEN "user" ELSE "ai"
       IN  (/\ ev'.op = "onTranscript"
            /\ lastRole = currentRole
            /\ ~(isPracticeModeRef /\ ~isUser))
           => IF isUser
              THEN userTranscriptBuffer' =
                       userTranscriptBuffer \o sanitizedText(ev'.text)
              ELSE aiTranscriptBuffer' =
                       aiTranscriptBuffer \o sanitizedText(ev'.text)]_vars

\* C18: neither buffer, no history entry and no entry of the recent window
\* contains a control character or a placeholder tag; a text is free of
\* both exactly when sanitizing it changes nothing.
SanitizationInvariant ==
    /\ sanitizedText(userTranscriptBuffer) = userTranscriptBuffer
    /\ sanitizedText(aiTranscriptBuffer) = aiTranscriptBuffer
    /\ \A i \in 1..Len(transcriptHistory) :
           sanitizedText(transcriptHistory[i].text) = transcriptHistory[i].text
    /\ \A i \in 1..Len(recentTurns) :
           sanitizedText(recentTurns[i].text) = recentTurns[i].text

\* C19: every buffer that onAudioData enqueues starts at
\* max(nextStartTime, output clock), hence not in the past, and at the end of
\* the buffer enqueued before it whenever that buffer has not finished yet;
\* afterwards nextStartTime is that start plus the duration of the buffer.
SchedulingRule ==
    [][(ev'.op = "onAudioData" /\ scheduled' # scheduled)
       => LET b == scheduled'[Len(scheduled')]
              previousEnd == scheduled[Len(scheduled)].start
                             + scheduled[Len(scheduled)].duration
          IN  /\ b.start = IF nextStartTime >= currentTime
                           THEN nextStartTime ELSE currentTime
              /\ b.start >= currentTime
              /\ (Len(scheduled) > 0 /\ previousEnd > currentTime)
                 => b.start = previousEnd
              /\ nextStartTime' = b.start + b.duration]_vars

\* C20: a buffer that arrives while the practice flag read by onAudioData is
\* set is not scheduled and leaves nextStartTime alone; exitPracticeMode sets
\* nextStartTime to the output clock of the open context; the first buffer
\* enqueued after practice mode was left starts at the clock of its enqueue.
MuteWindow ==
    [][/\ (ev'.op = "onAudioData" /\ isPracticeModeRef)
          => (scheduled' = scheduled /\ nextStartTime' = nextStartTime)
       /\ (ev'.op = "exitPracticeMode" /\ audioContext)
          => nextStartTime' = currentTime
       /\ (ev'.op = "onAudioData" /\ resumed /\ scheduled' # scheduled)
          => scheduled'[Len(scheduled')].start = currentTime]_vars

\* after a practice window with audio still pending, a buffer was enqueued at
\* the clock of its arrival, ahead of the end of the pending audio
MuteWindowWitness ==
    /\ ev.op = "onAudioData"
    /\ ~isPracticeMode
    /\ ~resumed
    /\ Len(scheduled) = 2
    /\ currentTime > 0
    /\ scheduled[2].start = currentTime
    /\ scheduled[2].start < scheduled[1].start + scheduled[1].duration

\* C21: the text accumulated for an AI turn is pushed to the history at most
\* once: a step that appends an AI entry appends exactly one, its text is the
\* non-blank AI buffer, and the same step empties that buffer, so neither
\* the role-switch path nor the correction path finds it again.
AiTurnFinalizedOnce ==
    [][(/\ Len(transcriptHistory') > Len(transcriptHistory)
        /\ transcriptHistory'[Len(transcriptHistory')].role = "ai")
       => /\ transcriptHistory' =
                Append(transcriptHistory,
                       [role |-> "ai", text |-> aiTranscriptBuffer])
          /\ Trim(aiTranscriptBuffer) # ""
          /\ aiTranscriptBuffer' = ""]_vars

\* the correction path finalized an AI turn and the user event that follows
\* it, a role change for that turn, left the history as it was
AiTurnFinalizedOnceWitness ==
    /\ ev.op = "onTranscript"
    /\ ev.isUser
    /\ userTranscriptBuffer # ""
    /\ aiTranscriptBuffer = ""
    /\ Len(corrections) > 0
    /\ Len(transcriptHistory) = 1
    /\ transcriptHistory[1].role = "ai"
    /\ corrections[Len(corrections)].aiContext = transcriptHistory[1].text

\* C22: a correction that arrives while the AI buffer is not blank gets as
\* aiContext the whole trimmed buffer when the buffer holds fewer than two
\* sentences ended by '.', '!' or '?', and the last two sentences when it
\* consists of two or more such sentences.
AiContextDerivation ==
    [][(ev'.op = "onCorrection" /\ Trim(aiTranscriptBuffer) # "")
       => LET text == Trim(aiTranscriptBuffer)
              terminated == MatchSentences(text, 1)
              aiContext == corrections'[Len(corrections')].aiContext
          IN  /\ Len(terminated) < 2 => aiContext = text
              /\ (/\ Len(terminated) >= 2
                  /\ SubSeq(text, Len(text), Len(text)) \in Terminators)
                 => aiContext = Trim(Join(SliceLast(terminated, 2), " "))]_vars

\* C23: every function call of a received toolCall message whose handling
\* has ended was answered by exactly one tool response carrying its id, and
\* the answer to a reportCorrection call follows the delivery of the
\* correction to onCorrection.
ToolCallAcknowledged ==
    \A i \in 1..Len(received) :
        (/\ received[i].toolCall \notin {"none", "noFunctionCalls"}
         /\ \A k \in 1..Len(suspended) : suspended[k].id # i)
        => /\ Cardinality({j \in 1..Len(calls) :
                  calls[j] = Call("sendToolResponse", i, FALSE, FALSE)}) = 1
           /\ received[i].toolCall = "reportCorrection"
              => \E j \in 1..Len(calls) : \E k \in 1..Len(calls) :
                    /\ j < k
                    /\ calls[j] = Call("onCorrection", i, FALSE, FALSE)
                    /\ calls[k] = Call("sendToolResponse", i, FALSE, FALSE)

\* C24: no run of handleMessage throws or rejects, and the transcript and
\* the correction of every message whose handling has ended were delivered,
\* whatever malformed element the message carries besides.
MalformedDataDropped ==
    /\ \A j \in 1..Len(calls) : calls[j].fn # "rejected"
    /\ \A i \in 1..Len(received) :
          (\A k \in 1..Len(suspended) : suspended[k].id # i)
          => /\ (received[i].input \/ received[i].output)
                => \E j \in 1..Len(calls) :
                      calls[j].fn = "onTranscript" /\ calls[j].msg = i
             /\ received[i].toolCall = "reportCorrection"
                => \E j \in 1..Len(calls) :
                      calls[j].fn = "onCorrection" /\ calls[j].msg = i

\* C25 (no drift from chunking): when the context rate Sr exceeds 16000, the
\* number of samples appended to the capture buffer for the N samples passed
\* to process() so far, however they were chunked, is ceil(N * 16000 / Sr).
NoChunkingDrift ==
    globalSampleRate > sampleRate
    => nAppended = (nInput * sampleRate + globalSampleRate - 1) \div globalSampleRate

\* C26 (buffer exclusivity): at most one of the two accumulation buffers
\* holds non-whitespace text, and then it is the buffer of the last active
\* role; when the last active role is unset both buffers are blank.
BufferExclusivity ==
    /\ Trim(userTranscriptBuffer) # "" => lastRole = "user"
    /\ Trim(aiTranscriptBuffer) # "" => lastRole = "ai"

\* a role change has finalized the AI turn and the user's buffer is filling
BufferExclusivityWitness ==
    /\ Trim(userTranscriptBuffer) # ""
    /\ lastRole = "user"
    /\ aiTranscriptBuffer = ""
    /\ Len(transcriptHistory) > 0
    /\ transcriptHistory[Len(transcriptHistory)].role = "ai"

\* C27 (merged text stays visible): within one role-run the live entry only
\* grows: after a delta of the role whose live entry ends the window, the
\* text shown by the live entry before the delta, which holds the text of a
\* finalized entry that a continuation merge removed, is a prefix of the text
\* the live entry shows after it.
MergedTextStaysVisible ==
    [][LET n == Len(recentTurns)
           m == Len(recentTurns')
       IN  (/\ ev'.op = "onTranscript"
            /\ n > 0
            /\ recentTurns[n].id = -1
            /\ recentTurns[n].role = lastRole
            /\ lastRole' = lastRole
            /\ m > 0
            /\ recentTurns'[m].id = -1)
           => /\ Len(recentTurns[n].text) <= Len(recentTurns'[m].text)
              /\ SubSeq(recentTurns'[m].text, 1, Len(recentTurns[n].text))
                   = recentTurns[n].text]_vars

\* C28 (correction references stay valid): every correction of the list
\* whose turnIndex is at least 0 refers to an existing entry of the current
\* transcript history, and that entry has role user.
CorrectionReferencesValid ==
    \A k \in DOMAIN corrections :
        ("turnIndex" \in DOMAIN corrections[k] /\ corrections[k].turnIndex >= 0)
        => /\ corrections[k].turnIndex + 1 \in DOMAIN transcriptHistory
           /\ transcriptHistory[corrections[k].turnIndex + 1].role = "user"

\* C29 (failed connect surfaces as error): the status is "connected" only
\* while the session of the service is open; after a failed connect() it is
\* never "connected".
FailedConnectSurfaces ==
    status = "connected" => (session /\ socket = "open")

\* C30 (session isolation): once the new session is connected, the status
\* stays "connected" until that session closes or errors or a session is
\* stopped or started; a callback of the replaced service does not change it.
SessionIsolation ==
    [][(status = "connected" /\ session /\ socket = "open")
       => \/ status' = "connected"
          \/ ev'.op \in {"onclose", "onerror", "stopRecording", "startSession"}]_vars

====
